---- MODULE Spec2Model ----
(***************************************************************************)
(* Growing DAGs: a model of the parsing boundary (Network, Interactome,    *)
(* PartialDag), the path engine (calculate_paths), the edge cost, the      *)
(* growth engine (produce_dag, grow) and the driver loop (handle_files).   *)
(*                                                                         *)
(* Nodes are Either<usize, SuperNode>: Left(i) is <<0, i>>, the two        *)
(* sentinels are <<1, 0>> and <<1, 1>>.  A graph is a record of its node   *)
(* list (insertion order, as petgraph's GraphMap keeps it) and its edge    *)
(* map (ordered pair -> payload).  Weights are non-negative integers, so   *)
(* that sums of f64 weights are exact.                                     *)
(***************************************************************************)
EXTENDS Integers, Sequences, FiniteSets, TLC

\* ------------------------------------------------------------------ bounds

\* Data lines read from the interactome file.
MaxLines == 4
\* Data lines read from the seed DAG file.
MaxDagLines == 2
\* Largest value of the -k option.
MaxK == 2
\* Longest sources / targets list of the attach-only specification.
MaxEndpoints == 2

\* ------------------------------------------------------------------ nodes

Left(i) == <<0, i>>
SuperSource == <<1, 0>>
SuperTarget == <<1, 1>>
IsLeft(n) == n[1] = 0

\* Option::None: of an Option<usize>, of an Option<node> and of an
\* Option<String>, each a value of the type's own shape that is no value of it.
NoId == -1
NoNode == <<2, 0>>
NoName == ""

\* f64::INFINITY: above every finite path score of the model.
Infinity == 1000000

\* The unit payload () of the DAG's edges.
Unit == "unit"
\* Weight::default(), the derived Default of Weight(f64).
DefaultWeight == 0

Range(s) == {s[j] : j \in 1..Len(s)}

\* ------------------------------------------------------------------ graphs

EmptyEdges == [e \in {} |-> 0]
EmptyGraph == [nodes |-> <<>>, edges |-> EmptyEdges]

ContainsNode(g, n) == n \in Range(g.nodes)
ContainsEdge(g, a, b) == <<a, b>> \in DOMAIN g.edges
EdgeSet(g) == DOMAIN g.edges

\* GraphMap::add_node: appends the node unless it is already there.
GraphAddNode(g, n) ==
    IF ContainsNode(g, n) THEN g ELSE [g EXCEPT !.nodes = Append(@, n)]

\* GraphMap::add_edge: inserts both endpoints when missing, inserts the edge
\* or replaces its payload.
GraphAddEdge(g, a, b, w) ==
    LET g1 == GraphAddNode(GraphAddNode(g, a), b)
    IN  [g1 EXCEPT !.edges = [e \in DOMAIN g1.edges \cup {<<a, b>>} |->
                                IF e = <<a, b>> THEN w ELSE g1.edges[e]]]

\* GraphMap::remove_edge: no effect when the edge is absent.
GraphRemoveEdge(g, a, b) ==
    [g EXCEPT !.edges = [e \in DOMAIN g.edges \ {<<a, b>>} |-> g.edges[e]]]

\* GraphMap::remove_node: drops the node and every edge incident to it.  The
\* position of the remaining nodes in the list is never read for a graph
\* nodes are removed from (the candidate), so the list is simply filtered.
GraphRemoveNode(g, n) ==
    [nodes |-> SelectSeq(g.nodes, LAMBDA m : m # n),
     edges |-> [e \in {x \in DOMAIN g.edges : x[1] # n /\ x[2] # n} |-> g.edges[e]]]

OutNeighbors(g, n) == {e[2] : e \in {x \in DOMAIN g.edges : x[1] = n}}
InNeighbors(g, n) == {e[1] : e \in {x \in DOMAIN g.edges : x[2] = n}}

\* ------------------------------------------------------------------ id map

\* BiHashMap<String, usize> as its set of <<name, id>> pairs.
GetByLeft(m, name) ==
    IF \E p \in m : p[1] = name THEN (CHOOSE p \in m : p[1] = name)[2] ELSE NoId
GetByRight(m, id) ==
    IF \E p \in m : p[2] = id THEN (CHOOSE p \in m : p[2] = id)[1] ELSE NoName
\* BiHashMap::insert: overwrites any pair sharing the left or the right value.
BiInsert(m, name, id) ==
    {p \in m : p[1] # name /\ p[2] # id} \cup {<<name, id>>}

Max(a, b) == IF a >= b THEN a ELSE b

\* ------------------------------------------------------------------ Network

EmptyNetwork == [graph |-> EmptyGraph, id_map |-> {}, max_id |-> 0]

\* The two id factories of network.rs: from_lines mints the next id
\* (|_, idx| Some(idx)), from_lines_using_id_map looks the name up in the
\* id map it was given.
IdFactory(kind, ext_id_map, name, len) ==
    IF kind = "mint" THEN len ELSE GetByLeft(ext_id_map, name)

\* A name resolved without asking the id map first: every occurrence of a
\* name is handed to the id factory.
ResolveNameUnseen(net, name, kind, ext_id_map) ==
    LET made == IdFactory(kind, ext_id_map, name, Cardinality(net.id_map) + net.max_id)
    IN  IF made # NoId
        THEN [id |-> made,
              net |-> [graph |-> GraphAddNode(net.graph, Left(made)),
                       id_map |-> net.id_map \cup {<<name, made>>},
                       max_id |-> Max(made, net.max_id)]]
        ELSE [id |-> NoId, net |-> net]

\* One name of a data line resolved: the id map's own entry, else the id
\* factory's answer (which adds the node, records the name and raises max_id),
\* else none.
ResolveName(net, name, kind, ext_id_map) ==
    LET known == GetByLeft(net.id_map, name)
        made == IdFactory(kind, ext_id_map, name, Cardinality(net.id_map))
    IN  IF known # NoId THEN [id |-> known, net |-> net]
        ELSE IF made # NoId
             THEN [id |-> made,
                   net |-> [graph |-> GraphAddNode(net.graph, Left(made)),
                            id_map |-> BiInsert(net.id_map, name, made),
                            max_id |-> Max(made, net.max_id)]]
             ELSE [id |-> NoId, net |-> net]

\* A line is its tab-separated fields; the blank line has none and a comment
\* line is one whose first field is the comment marker.
BlankLine == <<>>
IsComment(line) == line # <<>> /\ line[1] = "#"

\* DataFactory::from_strs on the fields after the two names: one weight for
\* WeightDataFactory (len 1), nothing for EmptyTupleDataFactory (len 0).
DataFromStrs(flen, line) == IF flen = 0 THEN Unit ELSE line[3]

\* The body of the loop of Network::from_lines_over_id_map for one line, idx
\* the line's 0-based position in the file.
ParseLine(net, line, idx, flen, kind, ext_id_map) ==
    IF line = BlankLine \/ IsComment(line) THEN [ok |-> TRUE, net |-> net]
    ELSE IF Len(line) # 2 + flen
         THEN [ok |-> FALSE,
               err |-> [kind |-> "InvalidSizeError", line |-> idx + 1,
                        got |-> Len(line), need |-> 2 + flen]]
    ELSE
      LET s == ResolveName(net, line[1], kind, ext_id_map)
          t == ResolveName(s.net, line[2], kind, ext_id_map)
      IN  IF s.id = NoId
             THEN [ok |-> FALSE,
                   err |-> [kind |-> "FactoryOut", name |-> line[1],
                            at |-> Cardinality(net.id_map)]]
          ELSE IF t.id = NoId
             THEN [ok |-> FALSE,
                   err |-> [kind |-> "FactoryOut", name |-> line[2],
                            at |-> Cardinality(s.net.id_map)]]
          ELSE [ok |-> TRUE,
                net |-> [t.net EXCEPT !.graph =
                           GraphAddEdge(@, Left(s.id), Left(t.id),
                                        DataFromStrs(flen, line))]]

\* Network::is_node_empty.
IsNodeEmpty(g, n) == InNeighbors(g, n) = {} /\ OutNeighbors(g, n) = {}

\* Network::id_from_idx.
IdFromIdx(net, id) == GetByRight(net.id_map, id)

\* The first name of the list that the id map does not hold, or none.
FirstMissing(id_map, names) ==
    LET bad == {j \in 1..Len(names) : GetByLeft(id_map, names[j]) = NoId}
    IN  IF bad = {} THEN NoName
        ELSE names[CHOOSE j \in bad : \A j2 \in bad : j <= j2]

\* prune with the direction read the wrong way round.
PruneOtherDirection(net, names, direction, require_nodes) ==
    LET missing == FirstMissing(net.id_map, names)
        ids == {GetByLeft(net.id_map, names[j]) : j \in 1..Len(names)} \ {NoId}
        pooled == IF direction = "Outgoing"
                  THEN {e \in DOMAIN net.graph.edges : \E id \in ids : e[2] = Left(id)}
                  ELSE {e \in DOMAIN net.graph.edges : \E id \in ids : e[1] = Left(id)}
    IN  IF require_nodes /\ missing # NoName
        THEN [ok |-> FALSE, err |-> missing]
        ELSE [ok |-> TRUE,
              net |-> [net EXCEPT !.graph.edges =
                         [e \in DOMAIN net.graph.edges \ pooled |-> net.graph.edges[e]]]]

\* prune that skips every unknown name, require_nodes set or not.
PruneNeverRequires(net, names, direction, require_nodes) ==
    LET ids == {GetByLeft(net.id_map, names[j]) : j \in 1..Len(names)} \ {NoId}
        pooled == IF direction = "Incoming"
                  THEN {e \in DOMAIN net.graph.edges : \E id \in ids : e[2] = Left(id)}
                  ELSE {e \in DOMAIN net.graph.edges : \E id \in ids : e[1] = Left(id)}
    IN  [ok |-> TRUE,
         net |-> [net EXCEPT !.graph.edges =
                    [e \in DOMAIN net.graph.edges \ pooled |-> net.graph.edges[e]]]]

\* Network::prune: the edges in the given direction at every named node are
\* pooled and then removed; a name the id map does not hold is skipped, or
\* fails the call when require_nodes is set.
Prune(net, names, direction, require_nodes) ==
    LET missing == FirstMissing(net.id_map, names)
        ids == {GetByLeft(net.id_map, names[j]) : j \in 1..Len(names)} \ {NoId}
        pooled == IF direction = "Incoming"
                  THEN {e \in DOMAIN net.graph.edges : \E id \in ids : e[2] = Left(id)}
                  ELSE {e \in DOMAIN net.graph.edges : \E id \in ids : e[1] = Left(id)}
    IN  IF require_nodes /\ missing # NoName
        THEN [ok |-> FALSE, err |-> missing]
        ELSE [ok |-> TRUE,
              net |-> [net EXCEPT !.graph.edges =
                         [e \in DOMAIN net.graph.edges \ pooled |-> net.graph.edges[e]]]]

\* Network::cast_over_never: a new graph that receives the nodes in their
\* order and then every edge with its payload; id map and max_id move over.
RECURSIVE AddNodes(_, _)
AddNodes(g, ns) ==
    IF ns = <<>> THEN g ELSE AddNodes(GraphAddNode(g, Head(ns)), Tail(ns))

CastOverNever(net) ==
    LET withNodes == AddNodes(EmptyGraph, net.graph.nodes)
    IN  [graph |-> [withNodes EXCEPT !.edges =
                      [e \in DOMAIN net.graph.edges |-> net.graph.edges[e]]],
         id_map |-> net.id_map,
         max_id |-> net.max_id]

\* ------------------------------------------------------------------ Interactome

\* The filter_map / collect of attach_sources_and_targets over one list of
\* names: the ids of the names in order, unknown names dropped unless
\* require is set, in which case the first unknown name fails the call.
ResolveEndpoints(id_map, names, require) ==
    LET missing == FirstMissing(id_map, names)
        known == SelectSeq(names, LAMBDA n : GetByLeft(id_map, n) # NoId)
    IN  IF require /\ missing # NoName
        THEN [ok |-> FALSE, err |-> missing]
        ELSE [ok |-> TRUE,
              ids |-> [j \in 1..Len(known) |-> GetByLeft(id_map, known[j])]]

RECURSIVE AddSourceEdges(_, _, _)
AddSourceEdges(g, ids, default) ==
    IF ids = <<>> THEN g
    ELSE AddSourceEdges(GraphAddEdge(g, SuperSource, Left(Head(ids)), default),
                        Tail(ids), default)

RECURSIVE AddTargetEdges(_, _, _)
AddTargetEdges(g, ids, default) ==
    IF ids = <<>> THEN g
    ELSE AddTargetEdges(GraphAddEdge(g, Left(Head(ids)), SuperTarget, default),
                        Tail(ids), default)

\* Interactome::attach_sources_and_targets.
AttachSourcesAndTargets(network, sources, targets, require, default) ==
    LET cast == CastOverNever(network)
        net0 == [cast EXCEPT !.graph =
                   GraphAddNode(GraphAddNode(@, SuperSource), SuperTarget)]
        p1 == Prune(net0, sources, "Incoming", require)
        p2 == Prune(p1.net, targets, "Outgoing", require)
        srcs == ResolveEndpoints(p2.net.id_map, sources, require)
        tgts == ResolveEndpoints(p2.net.id_map, targets, require)
    IN  IF ~p1.ok THEN [ok |-> FALSE, err |-> [kind |-> "SourceNotExists", name |-> p1.err]]
        ELSE IF ~p2.ok THEN [ok |-> FALSE, err |-> [kind |-> "TargetNotExists", name |-> p2.err]]
        ELSE IF ~srcs.ok THEN [ok |-> FALSE, err |-> [kind |-> "SourceNotExists", name |-> srcs.err]]
        ELSE IF ~tgts.ok THEN [ok |-> FALSE, err |-> [kind |-> "SourceNotExists", name |-> tgts.err]]
        ELSE [ok |-> TRUE,
              interactome |->
                [inner_network |->
                   [p2.net EXCEPT !.graph =
                      AddTargetEdges(AddSourceEdges(@, srcs.ids, default),
                                     tgts.ids, default)],
                 sources |-> srcs.ids,
                 targets |-> tgts.ids]]

\* Interactome::name_from_idx.
NameFromIdx(interactome, id) ==
    IF IsLeft(id) THEN IdFromIdx(interactome.inner_network, id[2])
    ELSE IF id = SuperSource THEN "[[Super Source]]"
    ELSE "[[Super Target]]"

\* ------------------------------------------------------------------ PartialDag

\* The test of is_cyclic_directed inverted.
RECURSIVE PeelsAway(_, _)
IsCyclicInverted(g) == PeelsAway(g, Range(g.nodes))

\* petgraph's is_cyclic_directed: nodes without a predecessor among the
\* remaining nodes are peeled off until none is left (acyclic) or none can
\* be peeled (a cycle, a self-loop included).
PeelsAway(g, left) ==
    IF left = {} THEN TRUE
    ELSE LET free == {n \in left : InNeighbors(g, n) \cap left = {}}
         IN  IF free = {} THEN FALSE ELSE PeelsAway(g, left \ free)

IsCyclicDirected(g) == ~PeelsAway(g, Range(g.nodes))

\* PartialDag::new.
NewPartialDag(network, sources, targets) ==
    LET att == AttachSourcesAndTargets(network, sources, targets, FALSE, Unit)
    IN  IF ~att.ok THEN [ok |-> FALSE, err |-> att.err]
        ELSE IF IsCyclicDirected(att.interactome.inner_network.graph)
             THEN [ok |-> FALSE, err |-> [kind |-> "IsCyclic", name |-> NoName]]
        ELSE [ok |-> TRUE, dag |-> att.interactome]

\* ------------------------------------------------------------------ util

\* petgraph's Dfs stepped over Reversed(graph): the stack's top is popped;
\* a node popped for the first time is discovered, pushes its
\* not-yet-discovered predecessors and is yielded.  Neighbours are pushed in
\* the order of the graph's node list.
RECURSIVE DfsReversed(_, _, _, _)
DfsReversed(g, stack, discovered, out) ==
    IF stack = <<>> THEN out
    ELSE LET node == stack[Len(stack)]
             rest == SubSeq(stack, 1, Len(stack) - 1)
         IN  IF node \in discovered THEN DfsReversed(g, rest, discovered, out)
             ELSE LET d2 == discovered \cup {node}
                      preds == InNeighbors(g, node)
                      push == SelectSeq(g.nodes, LAMBDA m : m \in preds /\ m \notin d2)
                  IN  DfsReversed(g, rest \o push, d2, Append(out, node))

\* get_related with a walk that ends before its first step: no relative is
\* collected.
GetRelatedNothing(g, node, direction) == <<>>

\* get_related without the test that leaves the node itself out.
GetRelatedWithSelf(g, node, direction) == DfsReversed(g, <<node>>, {}, <<>>)

\* util::get_related: both arms of the match start the Dfs at the node, and
\* the loop steps it over Reversed(graph) whatever the direction; the node
\* itself is left out of the result.
GetRelated(g, node, direction) ==
    SelectSeq(DfsReversed(g, <<node>>, {}, <<>>), LAMBDA nx : nx # node)

GetAncestors(g, node) == GetRelated(g, node, "Incoming")
GetDescendents(g, node) == GetRelated(g, node, "Outgoing")

\* ------------------------------------------------------------------ path engine

\* Paths<V>: (source, target) -> (score, parent).
EmptyPaths == [key \in {} |-> [score |-> 0, parent |-> NoNode]]

PathsInsert(paths, key, val) ==
    [x \in DOMAIN paths \cup {key} |-> IF x = key THEN val ELSE paths[x]]

\* Vec::remove at the position of the first occurrence.
RemoveFirst(seq, x) ==
    LET at == CHOOSE j \in 1..Len(seq) : seq[j] = x /\ \A j2 \in 1..(j - 1) : seq[j2] # x
    IN  SubSeq(seq, 1, at - 1) \o SubSeq(seq, at + 1, Len(seq))

\* calculate_paths before its loop: the targets copied, nothing visited, the
\* source entered with score 0 and pushed.  The binary heap is the set of its
\* (score, node) entries; a node is pushed again only with a lower score.
CalcStart(paths, source, targets) ==
    [paths |-> PathsInsert(paths, <<source, source>>, [score |-> 0, parent |-> NoNode]),
     visited |-> {},
     visit_next |-> {<<0, source>>},
     targets |-> targets,
     returned |-> FALSE]

\* The entries the heap may pop next: ScoreObject orders by score alone.
MinEntries(heap) == {e \in heap : \A f \in heap : e[1] <= f[1]}

\* Relaxation that scores a neighbour by the edge alone, the popped node's
\* score left out.
RelaxForgetsScore(st, graph, source, node, node_score) ==
    LET nexts == {m \in OutNeighbors(graph, node) : m \notin st.visited}
        next_score(m) == graph.edges[<<node, m>>]
        better == {m \in nexts : \/ <<source, m>> \notin DOMAIN st.paths
                                 \/ next_score(m) < st.paths[<<source, m>>].score}
    IN  [st EXCEPT
           !.paths = [x \in DOMAIN st.paths \cup {<<source, m>> : m \in better} |->
                        IF x[1] = source /\ x[2] \in better
                        THEN [score |-> next_score(x[2]), parent |-> node]
                        ELSE st.paths[x]],
           !.visit_next = @ \cup {<<next_score(m), m>> : m \in better},
           !.visited = @ \cup {node}]

\* Relaxation that files an entry under the popped node in the place of the
\* source.
RelaxKeyedByNode(st, graph, source, node, node_score) ==
    LET nexts == {m \in OutNeighbors(graph, node) : m \notin st.visited}
        next_score(m) == node_score + graph.edges[<<node, m>>]
        better == {m \in nexts : \/ <<node, m>> \notin DOMAIN st.paths
                                 \/ next_score(m) < st.paths[<<node, m>>].score}
    IN  [st EXCEPT
           !.paths = [x \in DOMAIN st.paths \cup {<<node, m>> : m \in better} |->
                        IF x[1] = node /\ x[2] \in better
                        THEN [score |-> next_score(x[2]), parent |-> node]
                        ELSE st.paths[x]],
           !.visit_next = @ \cup {<<next_score(m), m>> : m \in better},
           !.visited = @ \cup {node}]

\* The edges out of the popped node relaxed, then the node marked visited.
Relax(st, graph, source, node, node_score) ==
    LET nexts == {m \in OutNeighbors(graph, node) : m \notin st.visited}
        next_score(m) == node_score + graph.edges[<<node, m>>]
        better == {m \in nexts : \/ <<source, m>> \notin DOMAIN st.paths
                                 \/ next_score(m) < st.paths[<<source, m>>].score}
    IN  [st EXCEPT
           !.paths = [x \in DOMAIN st.paths \cup {<<source, m>> : m \in better} |->
                        IF x[1] = source /\ x[2] \in better
                        THEN [score |-> next_score(x[2]), parent |-> node]
                        ELSE st.paths[x]],
           !.visit_next = @ \cup {<<next_score(m), m>> : m \in better},
           !.visited = @ \cup {node}]

\* A turn of the loop that looks at the ignore list only after relaxing, and
\* at the targets only after that.
CalcStepRelaxesFirst(st, graph, source, ignore, entry) ==
    LET node_score == entry[1]
        node == entry[2]
        popped == [st EXCEPT !.visit_next = @ \ {entry}]
    IN  IF node \in st.visited THEN popped
        ELSE LET hit == node \in Range(st.targets)
                 left == IF hit THEN RemoveFirst(st.targets, node) ELSE st.targets
                 st1 == [Relax(popped, graph, source, node, node_score)
                           EXCEPT !.targets = left]
             IN  IF hit /\ left = <<>> THEN [st1 EXCEPT !.returned = TRUE] ELSE st1

\* One turn of the while loop of calculate_paths, entry popped.
CalcStep(st, graph, source, ignore, entry) ==
    LET node_score == entry[1]
        node == entry[2]
        popped == [st EXCEPT !.visit_next = @ \ {entry}]
    IN  IF node \in st.visited THEN popped
        ELSE LET hit == node \in Range(st.targets)
                 left == IF hit THEN RemoveFirst(st.targets, node) ELSE st.targets
                 st1 == [popped EXCEPT !.targets = left]
             IN  IF hit /\ left = <<>> THEN [st1 EXCEPT !.returned = TRUE]
                 ELSE IF node \in Range(ignore) THEN st1
                 ELSE Relax(st1, graph, source, node, node_score)

\* Every state calculate_paths can return in: the loop run until it returns
\* early or the heap is empty, over every pop order equal scores allow.
RECURSIVE CalcRuns(_, _, _, _)
CalcRuns(st, graph, source, ignore) ==
    IF st.returned \/ st.visit_next = {} THEN {st}
    ELSE UNION {CalcRuns(CalcStep(st, graph, source, ignore, e), graph, source, ignore) :
                  e \in MinEntries(st.visit_next)}

\* calculate_paths: the maps it can leave in `paths`.
CalculatePaths(paths, graph, source, targets, ignore) ==
    {st.paths : st \in CalcRuns(CalcStart(paths, source, targets), graph, source, ignore)}

\* ------------------------------------------------------------------ cost

\* The consecutive pairs of a node sequence.
Pairs(nodes) == {<<nodes[j], nodes[j + 1]>> : j \in 1..(Len(nodes) - 1)}

\* EdgeCost::relative_cost_of panics on a pair that is neither a DAG edge nor
\* an edge of the main interactome.
EdgeCostPanics(main, dag, nodes) ==
    \E j \in 1..(Len(nodes) - 1) :
        /\ ~ContainsEdge(dag.inner_network.graph, nodes[j], nodes[j + 1])
        /\ ~ContainsEdge(main.inner_network.graph, nodes[j], nodes[j + 1])

RECURSIVE AddedCost(_, _, _, _)
AddedCost(main, dag, nodes, j) ==
    IF j > Len(nodes) - 1 THEN 0
    ELSE (IF ~ContainsEdge(dag.inner_network.graph, nodes[j], nodes[j + 1])
          THEN main.inner_network.graph.edges[<<nodes[j], nodes[j + 1]>>]
          ELSE 0)
         + AddedCost(main, dag, nodes, j + 1)

\* EdgeCost::relative_cost_of.
RelativeCostOf(main, dag, nodes) == AddedCost(main, dag, nodes, 1)

\* EdgeCost::relative_cost_of as a call: the loop runs over 0..nodes.len() - 1,
\* a subtraction on usize.  On the empty slice it overflows: the build with
\* overflow checks panics there, the build without wraps to the largest usize
\* and panics on nodes[0]; either way the call panics.  It panics as well on
\* a pair that is no edge of the DAG and none of the main interactome.
RelativeCostOutcome(main, dag, nodes) ==
    IF Len(nodes) = 0 THEN [panic |-> TRUE, cost |-> 0]
    ELSE IF EdgeCostPanics(main, dag, nodes) THEN [panic |-> TRUE, cost |-> 0]
    ELSE [panic |-> FALSE, cost |-> RelativeCostOf(main, dag, nodes)]

\* ------------------------------------------------------------------ growth engine

\* GrowthCache::new: the candidate is the interactome's network.
NewGrowthCache(interactome) == [candidate |-> interactome.inner_network]

\* produce_dag, the first loop: every DAG edge is removed from the candidate,
\* and after each removal an endpoint left without edges is removed too.
\* The DAG's edges left in the candidate.
PrepareCandidateKeepsEdges(cand, dagEdges) == cand

RECURSIVE PrepareCandidate(_, _)
PrepareCandidate(cand, dagEdges) ==
    IF dagEdges = {} THEN cand
    ELSE LET e == CHOOSE x \in dagEdges : TRUE
             c1 == GraphRemoveEdge(cand, e[1], e[2])
             c2 == IF IsNodeEmpty(c1, e[1]) THEN GraphRemoveNode(c1, e[1]) ELSE c1
             c3 == IF IsNodeEmpty(c2, e[2]) THEN GraphRemoveNode(c2, e[2]) ELSE c2
         IN  PrepareCandidate(c3, dagEdges \ {e})

\* petgraph's toposort: some order of all the nodes with every node before
\* its successors; the set is empty when the graph has a cycle.
RECURSIVE TopoExtend(_, _, _)
TopoExtend(g, placed, left) ==
    IF left = {} THEN {placed}
    ELSE UNION {TopoExtend(g, Append(placed, n), left \ {n}) :
                  n \in {m \in left : InNeighbors(g, m) \cap left = {}}}

Toposort(g) == TopoExtend(g, <<>>, Range(g.nodes))

\* The ancestors left in the candidate.
RemoveNodesNothing(g, ns) == g

RECURSIVE RemoveNodes(_, _)
RemoveNodes(g, ns) ==
    IF ns = <<>> THEN g ELSE RemoveNodes(GraphRemoveNode(g, Head(ns)), Tail(ns))

\* The targets of a DAG node: every DAG node that is neither the node nor one
\* of its ancestors, in the order of the DAG's node list.
TargetsOf(dagGraph, node_id, ancestors) ==
    SelectSeq(dagGraph.nodes, LAMBDA n : n # node_id /\ n \notin Range(ancestors))

\* produce_dag, the body of the loop over the DAG's nodes for node_id: what it
\* can leave in the candidate, the parent map and all_targets, or the panic of
\* the unwrap of name_from_idx.
VisitNode(dag, cand, paths, targetsMap, node_id) ==
    LET dagGraph == dag.inner_network.graph
        ancestors == GetAncestors(dagGraph, node_id)
        pruned == RemoveNodes(cand, ancestors)
        targets == TargetsOf(dagGraph, node_id, ancestors)
        same == [panic |-> FALSE, candidate |-> cand, paths |-> paths,
                 all_targets |-> targetsMap]
    IN  IF NameFromIdx(dag, node_id) = NoName
        THEN {[same EXCEPT !.panic = TRUE]}
        ELSE IF ContainsEdge(dagGraph, node_id, SuperTarget)
        THEN {[same EXCEPT !.paths =
                 PathsInsert(paths, <<node_id, SuperTarget>>,
                             [score |-> Infinity, parent |-> NoNode])]}
        ELSE IF ~ContainsNode(cand, node_id) THEN {same}
        ELSE {[panic |-> FALSE,
               candidate |-> pruned,
               paths |-> p,
               all_targets |-> [n \in DOMAIN targetsMap \cup {node_id} |->
                                  IF n = node_id THEN targets ELSE targetsMap[n]]] :
                p \in CalculatePaths(paths, pruned, node_id, targets, targets)}

\* produce_dag, the walk from a target back over the parents to the source;
\* the nodes in the order they are pushed (target first).
RECURSIVE WalkParents(_, _, _, _)
WalkParents(paths, source, current, path) ==
    LET pushed == Append(path, current)
        parent == IF <<source, current>> \in DOMAIN paths
                  THEN paths[<<source, current>>].parent ELSE NoNode
    IN  IF parent = NoNode THEN pushed
        ELSE WalkParents(paths, source, parent, pushed)

Reverse(seq) == [j \in 1..Len(seq) |-> seq[Len(seq) + 1 - j]]

\* The paths one (source, targets) entry of all_targets yields: one per target
\* in order, walks shorter than two nodes dropped, each reversed.
RECURSIVE PathsOfSource(_, _, _)
PathsOfSource(paths, source, targets) ==
    IF targets = <<>> THEN <<>>
    ELSE LET path == WalkParents(paths, source, Head(targets), <<>>)
             rest == PathsOfSource(paths, source, Tail(targets))
         IN  IF Len(path) < 2 THEN rest ELSE <<Reverse(path)>> \o rest

\* Every path of the flat_map over all_targets.
CandidatePaths(paths, targetsMap) ==
    UNION {Range(PathsOfSource(paths, s, targetsMap[s])) : s \in DOMAIN targetsMap}

\* Iterator::min_by over one source's paths: the first of the cheapest.
FirstMin(seq, main, dag) ==
    seq[CHOOSE j \in 1..Len(seq) :
          /\ \A j2 \in 1..Len(seq) :
               RelativeCostOf(main, dag, seq[j]) <= RelativeCostOf(main, dag, seq[j2])
          /\ \A j2 \in 1..(j - 1) :
               RelativeCostOf(main, dag, seq[j]) < RelativeCostOf(main, dag, seq[j2])]

\* max_by in the place of min_by: the dearest path is kept.
BestPathsDearest(paths, targetsMap, main, dag) ==
    LET all == CandidatePaths(paths, targetsMap)
    IN  {b \in all : \A c \in all :
            RelativeCostOf(main, dag, b) >= RelativeCostOf(main, dag, c)}

\* min_by over the whole vector.  all_targets is a HashMap, so the sources come
\* in any order; within a source the paths keep the order of its targets, and
\* min_by keeps the first of equal minima.  The paths min_by can return are
\* the first cheapest path of every source that holds a cheapest path.
BestPaths(paths, targetsMap, main, dag) ==
    LET all == CandidatePaths(paths, targetsMap)
        perSource == {PathsOfSource(paths, s, targetsMap[s]) : s \in DOMAIN targetsMap}
        firsts == {FirstMin(seq, main, dag) : seq \in {q \in perSource : q # <<>>}}
    IN  {b \in firsts : \A c \in all :
            RelativeCostOf(main, dag, b) <= RelativeCostOf(main, dag, c)}

\* The grafting loop ended one pair early (0..len - 2).
RECURSIVE GraftAllButLast(_, _, _)
GraftAllButLast(g, path, j) ==
    IF j > Len(path) - 2 THEN g
    ELSE GraftAllButLast(GraphAddEdge(g, path[j], path[j + 1], Unit), path, j + 1)

\* grow: every consecutive pair of the path added to the DAG as a unit edge.
RECURSIVE Graft(_, _, _)
Graft(g, path, j) ==
    IF j > Len(path) - 1 THEN g
    ELSE Graft(GraphAddEdge(g, path[j], path[j + 1], Unit), path, j + 1)

\* handle_files, the output line: the iteration, the cost and the names of
\* the path's integer nodes, the sentinels left out.
OutputLine(interactome, iter, weight, path) ==
    LET ints == SelectSeq(path, IsLeft)
    IN  [iter |-> iter, weight |-> weight,
         path |-> [j \in 1..Len(ints) |-> IdFromIdx(interactome.inner_network, ints[j][2])]]

\* ------------------------------------------------------------------ inputs

\* The interactome file is a selection of these lines, in this order.
InteractomeFile ==
    << <<"A", "B", 1>>, <<"B", "C", 2>>, <<"B", "D", 1>>, <<"D", "C", 1>>,
       <<"D", "B", 1>>, <<"A", "D", 2>>, <<"A", "C", 3>> >>

\* The seed DAG file is a selection of these lines, in this order.
DagFile ==
    << <<"A", "B">>, <<"B", "C">>, <<"B", "D">>, <<"D", "B">> >>

\* The sources and targets files of the full run.
SourceLists == {<<"A">>}
TargetLists == {<<"C">>}

\* The names of the sources and of the targets lists of the attach-only
\* runs: B and D have edges both ways in the file, Z never occurs in it.
SourceNames == {"B", "Z"}
TargetNames == {"B", "D", "Z"}

RECURSIVE SeqsUpTo(_, _)
SeqsUpTo(S, n) ==
    IF n = 0 THEN {<<>>}
    ELSE LET shorter == SeqsUpTo(S, n - 1)
         IN  shorter \cup {Append(q, x) : q \in shorter, x \in S}

SourceEndpointLists == SeqsUpTo(SourceNames, MaxEndpoints)
TargetEndpointLists == SeqsUpTo(TargetNames, MaxEndpoints)

\* ------------------------------------------------------------------ state

VARIABLES
    pc,             \* where handle_files stands
    cursor,         \* position in the file being read
    lineNo,         \* data lines read from the file being read
    network,        \* the Network parsed from the interactome file
    sourcesIn,      \* the sources file
    targetsIn,      \* the targets file
    attachCall,     \* the last call of attach_sources_and_targets and its result
    interactome,    \* the Interactome<Weight>
    dagNet,         \* the Network parsed from the seed DAG file
    dag,            \* the PartialDag
    k,              \* the -k option
    i,              \* the driver loop's iteration
    cache,          \* the iteration's GrowthCache
    nodes,          \* produce_dag: the topological order
    idx,            \* produce_dag: the loop's position in nodes (1-based)
    paths_parents,  \* produce_dag: the parent map
    all_targets,    \* produce_dag: source -> targets
    dagBefore,      \* the PartialDag when the current grow call was made
    candidates,     \* the paths the last produce_dag reconstructed
    result,         \* what the last grow call returned
    output,         \* the lines printed
    err,            \* the error handle_files returned with
    unitCall,       \* a function called on its own: its name and arguments
    unitState       \* that call's local variables and what it returned

vars == <<pc, cursor, lineNo, network, sourcesIn, targetsIn, attachCall,
          interactome, dagNet, dag, k, i, cache, nodes, idx, paths_parents,
          all_targets, dagBefore, candidates, result, output, err,
          unitCall, unitState>>

NoInteractome == [inner_network |-> EmptyNetwork, sources |-> <<>>, targets |-> <<>>]
NoCache == [candidate |-> EmptyNetwork]
EmptyTargets == [n \in {} |-> <<>>]
NoError == [kind |-> "none"]
NoResult == [some |-> FALSE, cost |-> 0, path |-> <<>>]
NoCall == [made |-> FALSE]
NoUnit == [fn |-> "none"]

growVars == <<cache, nodes, idx, paths_parents, all_targets, dagBefore,
              candidates, result, output>>
inputVars == <<network, sourcesIn, targetsIn, attachCall, interactome>>
unitVars == <<unitCall, unitState>>

\* handle_files entered; no function is called on its own.
InitRun ==
    /\ pc = "read_interactome"
    /\ cursor = 0
    /\ lineNo = 0
    /\ network = EmptyNetwork
    /\ sourcesIn = <<>>
    /\ targetsIn = <<>>
    /\ attachCall = NoCall
    /\ interactome = NoInteractome
    /\ dagNet = EmptyNetwork
    /\ dag = NoInteractome
    /\ k = 0
    /\ i = 1
    /\ cache = NoCache
    /\ nodes = <<>>
    /\ idx = 1
    /\ paths_parents = EmptyPaths
    /\ all_targets = EmptyTargets
    /\ dagBefore = NoInteractome
    /\ candidates = {}
    /\ result = NoResult
    /\ output = <<>>
    /\ err = NoError

Init == InitRun /\ unitCall = NoUnit /\ unitState = NoUnit

\* ------------------------------------------------------------------ parsing

\* Network::from_file::<WeightDataFactory>: one more line of the interactome
\* file read and parsed.
ReadInteractomeLine ==
    /\ pc = "read_interactome"
    /\ lineNo < MaxLines
    /\ \E j \in (cursor + 1)..Len(InteractomeFile) :
         LET r == ParseLine(network, InteractomeFile[j], lineNo, 1, "mint", {})
         IN  /\ cursor' = j
             /\ lineNo' = lineNo + 1
             /\ IF r.ok
                THEN network' = r.net /\ pc' = pc /\ err' = err
                ELSE network' = network /\ pc' = "error" /\ err' = r.err
    /\ UNCHANGED <<sourcesIn, targetsIn, attachCall, interactome, dagNet, dag, k, i>>
    /\ UNCHANGED growVars
    /\ UNCHANGED unitVars

\* Interactome::attach_sources_and_targets on the parsed interactome.
Attach(sourceLists, targetLists, requires, then) ==
    /\ pc = "read_interactome"
    /\ \E srcs \in sourceLists, tgts \in targetLists, require \in requires :
         LET r == AttachSourcesAndTargets(network, srcs, tgts, require, DefaultWeight)
         IN  /\ sourcesIn' = srcs
             /\ targetsIn' = tgts
             /\ attachCall' = [made |-> TRUE, network |-> network, sources |-> srcs,
                               targets |-> tgts, require |-> require, res |-> r]
             /\ IF r.ok
                THEN interactome' = r.interactome /\ pc' = then /\ err' = err
                ELSE interactome' = interactome /\ pc' = "error" /\ err' = r.err
    /\ cursor' = 0
    /\ lineNo' = 0
    /\ UNCHANGED <<network, dagNet, dag, k, i>>
    /\ UNCHANGED growVars
    /\ UNCHANGED unitVars

\* handle_files: the interactome attached with require = true.
AttachInteractome == Attach(SourceLists, TargetLists, {TRUE}, "read_dag")

\* Network::from_file_using_id_map::<EmptyTupleDataFactory>: one more line of
\* the seed DAG file read and parsed against the interactome's id map.
ReadDagLine ==
    /\ pc = "read_dag"
    /\ lineNo < MaxDagLines
    /\ \E j \in (cursor + 1)..Len(DagFile) :
         LET r == ParseLine(dagNet, DagFile[j], lineNo, 0, "lookup",
                            interactome.inner_network.id_map)
         IN  /\ cursor' = j
             /\ lineNo' = lineNo + 1
             /\ IF r.ok
                THEN dagNet' = r.net /\ pc' = pc /\ err' = err
                ELSE dagNet' = dagNet /\ pc' = "error" /\ err' = r.err
    /\ UNCHANGED <<dag, k, i>>
    /\ UNCHANGED inputVars
    /\ UNCHANGED growVars
    /\ UNCHANGED unitVars

\* PartialDag::new on the parsed seed DAG, with the sources and targets of the
\* run; the -k option is read here.
BuildPartialDag ==
    /\ pc = "read_dag"
    /\ LET r == NewPartialDag(dagNet, sourcesIn, targetsIn)
           att == AttachSourcesAndTargets(dagNet, sourcesIn, targetsIn, FALSE, Unit)
       IN  /\ attachCall' = [made |-> TRUE, network |-> dagNet, sources |-> sourcesIn,
                             targets |-> targetsIn, require |-> FALSE, res |-> att]
           /\ IF r.ok
              THEN dag' = r.dag /\ pc' = "loop" /\ err' = err /\ k' \in 0..MaxK
              ELSE dag' = dag /\ pc' = "error" /\ err' = r.err /\ k' = k
    /\ i' = 1
    /\ UNCHANGED <<cursor, lineNo, network, sourcesIn, targetsIn, interactome, dagNet>>
    /\ UNCHANGED growVars
    /\ UNCHANGED unitVars

\* ------------------------------------------------------------------ driver loop

runVars == <<cursor, lineNo, network, sourcesIn, targetsIn, attachCall,
             interactome, dagNet, k, err>>

\* handle_files, `for i in 1..=k` entered for iteration i: a cache cloned
\* from the interactome; grow calls produce_dag, which prepares the candidate
\* and sorts the DAG's nodes topologically.
BeginIteration ==
    /\ pc = "loop"
    /\ i <= k
    /\ LET fresh == NewGrowthCache(interactome)
           dagGraph == dag.inner_network.graph
           orders == Toposort(dagGraph)
       IN  /\ cache' = [fresh EXCEPT !.candidate.graph =
                          PrepareCandidate(@, EdgeSet(dagGraph))]
           /\ IF orders = {}
              THEN nodes' = <<>> /\ pc' = "panic"
              ELSE nodes' \in orders /\ pc' = "visit"
    /\ idx' = 1
    /\ paths_parents' = EmptyPaths
    /\ all_targets' = EmptyTargets
    /\ dagBefore' = dag
    /\ UNCHANGED <<dag, i, candidates, result, output>>
    /\ UNCHANGED runVars
    /\ UNCHANGED unitVars

\* produce_dag: the loop over the DAG's nodes, one node.
VisitNextNode ==
    /\ pc = "visit"
    /\ idx <= Len(nodes)
    /\ \E out \in VisitNode(dag, cache.candidate.graph, paths_parents,
                            all_targets, nodes[idx]) :
         /\ pc' = IF out.panic THEN "panic" ELSE pc
         /\ cache' = [cache EXCEPT !.candidate.graph = out.candidate]
         /\ paths_parents' = out.paths
         /\ all_targets' = out.all_targets
    /\ idx' = idx + 1
    /\ UNCHANGED <<dag, i, nodes, dagBefore, candidates, result, output>>
    /\ UNCHANGED runVars
    /\ UNCHANGED unitVars

\* produce_dag after the loop (the paths rebuilt, the cheapest chosen), grow
\* (the winner grafted) and the match of handle_files (the line printed, or
\* the loop left).  The iteration's cache and maps are dropped.
FinishIteration ==
    /\ pc = "visit"
    /\ idx > Len(nodes)
    /\ LET paths == CandidatePaths(paths_parents, all_targets)
       IN  /\ candidates' = paths
           /\ IF \E c \in paths : EdgeCostPanics(interactome, dag, c)
              THEN pc' = "panic" /\ UNCHANGED <<dag, i, result, output>>
              ELSE IF paths = {}
              THEN /\ pc' = "done"
                   /\ result' = NoResult
                   /\ UNCHANGED <<dag, i, output>>
              ELSE \E best \in BestPaths(paths_parents, all_targets, interactome, dag) :
                     LET weight == RelativeCostOf(interactome, dag, best)
                     IN  /\ result' = [some |-> TRUE, cost |-> weight, path |-> best]
                         /\ dag' = [dag EXCEPT !.inner_network.graph = Graft(@, best, 1)]
                         /\ output' = Append(output, OutputLine(interactome, i, weight, best))
                         /\ i' = i + 1
                         /\ pc' = "loop"
    /\ cache' = NoCache
    /\ nodes' = <<>>
    /\ idx' = 1
    /\ paths_parents' = EmptyPaths
    /\ all_targets' = EmptyTargets
    /\ UNCHANGED dagBefore
    /\ UNCHANGED runVars
    /\ UNCHANGED unitVars

\* handle_files: the loop ends after iteration k.
LeaveLoop ==
    /\ pc = "loop"
    /\ i > k
    /\ pc' = "done"
    /\ UNCHANGED <<dag, i>>
    /\ UNCHANGED growVars
    /\ UNCHANGED runVars
    /\ UNCHANGED unitVars

Next ==
    \/ ReadInteractomeLine
    \/ AttachInteractome
    \/ ReadDagLine
    \/ BuildPartialDag
    \/ BeginIteration
    \/ VisitNextNode
    \/ FinishIteration
    \/ LeaveLoop

Spec == Init /\ [][Next]_vars

\* Attach-only runs: the interactome file read, then
\* attach_sources_and_targets called with any short lists of names and either
\* value of require.
AttachAny == Attach(SourceEndpointLists, TargetEndpointLists, BOOLEAN, "attached")

NextAttach == ReadInteractomeLine \/ AttachAny

SpecAttach == Init /\ [][NextAttach]_vars

\* ------------------------------------------------------------------ properties

\* The nodes an edge set leads to from the nodes of S, by one edge or more.
RECURSIVE Closure(_, _)
Closure(E, S) ==
    LET S2 == S \cup {e[2] : e \in {x \in E : x[1] \in S}}
    IN  IF S2 = S THEN S ELSE Closure(E, S2)

ReachFrom(E, n) == Closure(E, {e[2] : e \in {x \in E : x[1] = n}})

\* Some node of the edge set leads back to itself.
HasDirectedCycle(E) == \E e \in E : e[1] \in ReachFrom(E, e[1])

DagAccepted == dag # NoInteractome
DagEdges == EdgeSet(dag.inner_network.graph)
MainEdges == EdgeSet(interactome.inner_network.graph)

\* An interactome edge between two DAG nodes that would close a cycle if it
\* were grafted: it leads from a DAG node back to one of its DAG ancestors.
BackEdgeOffered ==
    \E e \in MainEdges \ DagEdges : e[2] # e[1] /\ e[1] \in ReachFrom(DagEdges, e[2])

\* C1: once PartialDag::new has accepted the seed DAG, the DAG's graph, with
\* SuperSource and SuperTarget, has no directed cycle, however many grow calls
\* have succeeded (the weights of the interactome are non-negative).
C1_GrowKeepsDagAcyclic == DagAccepted => ~HasDirectedCycle(DagEdges)

\* Two grafts have been made, and the interactome offered an edge back to an
\* ancestor.
C1_Witness == Len(output) >= 2 /\ BackEdgeOffered

\* C2: the driver calls grow for i = 1, 2, ... in order, prints one line for
\* each iteration that returns a winner, and ends only when grow returns none
\* or after iteration k; every iteration it reaches runs to completion.
C2_DriverLoopRunsEveryIteration ==
    /\ pc # "panic"
    /\ \A j \in 1..Len(output) : output[j].iter = j
    /\ pc \in {"loop", "visit"} => Len(output) = i - 1 /\ i <= k + 1
    /\ pc = "done" => \/ ~result.some /\ i <= k /\ Len(output) = i - 1
                      \/ i = k + 1 /\ Len(output) = k

RECURSIVE SumWeights(_, _)
SumWeights(E, w) ==
    IF E = {} THEN 0
    ELSE LET e == CHOOSE x \in E : TRUE IN w[e] + SumWeights(E \ {e}, w)

\* The interactome's total weight of the pairs of a path that are no edges of
\* the DAG d.
NewEdgeWeight(path, d) ==
    SumWeights(Pairs(path) \ EdgeSet(d.inner_network.graph),
               interactome.inner_network.graph.edges)

\* A call of grow has returned and nothing has been done since.
GrowReturned == pc \in {"loop", "done"} /\ dagBefore # NoInteractome

\* C3: produce_dag returns none exactly when it rebuilt no candidate path;
\* otherwise it returns one of the candidate paths with its cost against the
\* DAG of the call, and no candidate path is cheaper.
C3_ReturnsCheapestCandidate ==
    GrowReturned =>
        /\ ~result.some <=> candidates = {}
        /\ result.some =>
             /\ result.path \in candidates
             /\ result.cost = NewEdgeWeight(result.path, dagBefore)
             /\ \A c \in candidates : NewEdgeWeight(c, dagBefore) >= result.cost

\* A winner was chosen among several candidates, one of them dearer.
C3_Witness ==
    /\ GrowReturned
    /\ result.some
    /\ \E c \in candidates : NewEdgeWeight(c, dagBefore) > result.cost

\* The Interactome attach_sources_and_targets built from the parsed file.
AttachedInteractome ==
    AttachSourcesAndTargets(network, sourcesIn, targetsIn, TRUE, DefaultWeight).interactome

\* C4: when grow returns a winner, the DAG's edges are those it had before the
\* call and the consecutive pairs of the winner, and the main interactome is
\* as it was built.
C4_GraftAddsExactlyThePath ==
    GrowReturned /\ result.some =>
        /\ DagEdges = EdgeSet(dagBefore.inner_network.graph) \cup Pairs(result.path)
        /\ interactome = AttachedInteractome

\* A winner of three nodes or more was grafted onto a DAG that had edges.
C4_Witness ==
    /\ GrowReturned
    /\ result.some
    /\ Len(result.path) >= 3
    /\ Cardinality(EdgeSet(dagBefore.inner_network.graph)) >= 3

\* No node of the DAG d reaches one of its targets (the DAG nodes that are
\* neither the node nor its ancestors) over the interactome's edges that are
\* no edges of d.
NoTargetReachable(d) ==
    LET dagE == EdgeSet(d.inner_network.graph)
        candE == MainEdges \ dagE
        dagNodes == Range(d.inner_network.graph.nodes)
    IN  \A n \in dagNodes :
          \A t \in dagNodes \ {n} :
             n \in ReachFrom(dagE, t) \/ t \notin ReachFrom(candE, n)

\* C5: when no DAG node reaches one of its targets in the candidate,
\* produce_dag and grow return none and leave the DAG as it was.
C5_NothingReachableReturnsNone ==
    dagBefore # NoInteractome /\ NoTargetReachable(dagBefore) =>
        /\ pc # "panic"
        /\ pc \in {"loop", "done"} => ~result.some /\ dag = dagBefore

\* Every integer node at an end of an edge of the network has a name in the
\* network's own id map.
IdMapCovers(net) ==
    \A e \in EdgeSet(net.graph) : \A n \in {e[1], e[2]} :
        IsLeft(n) => IdFromIdx(net, n[2]) # NoName

\* C6: in every Network the program holds, the PartialDag's after grafts
\* included, every integer node at an end of an edge has an entry in the
\* network's own id map.
C6_IdMapCoversEveryNode ==
    /\ IdMapCovers(network)
    /\ IdMapCovers(interactome.inner_network)
    /\ IdMapCovers(dagNet)
    /\ IdMapCovers(dag.inner_network)
    /\ IdMapCovers(cache.candidate)

\* ------------------------------------------------------------------ attach

\* The last attach_sources_and_targets call returned an Interactome.
AttachOk == attachCall.made /\ attachCall.res.ok
Attached == attachCall.res.interactome
AttachedEdges == EdgeSet(Attached.inner_network.graph)

\* The names of a list the id map of the call's network holds / does not hold.
Known(names) ==
    {names[j] : j \in {x \in 1..Len(names) :
                         GetByLeft(attachCall.network.id_map, names[x]) # NoId}}
Unknown(names) == Range(names) \ Known(names)
KnownIds(names) == {Left(GetByLeft(attachCall.network.id_map, n)) : n \in Known(names)}

\* C7: after a successful attach_sources_and_targets, SuperSource has as many
\* outgoing edges as the stored sources list is long and no incoming edge,
\* and SuperTarget has as many incoming edges as the stored targets list is
\* long and no outgoing edge.
C7_SentinelDegreesMatchLists ==
    AttachOk =>
        /\ Cardinality({e \in AttachedEdges : e[1] = SuperSource}) = Len(Attached.sources)
        /\ {e \in AttachedEdges : e[2] = SuperSource} = {}
        /\ Cardinality({e \in AttachedEdges : e[2] = SuperTarget}) = Len(Attached.targets)
        /\ {e \in AttachedEdges : e[1] = SuperTarget} = {}

\* The parsed network's edges that enter no resolved source and leave no
\* resolved target.
KeptEdges ==
    {e \in EdgeSet(attachCall.network.graph) :
        e[2] \notin KnownIds(attachCall.sources) /\ e[1] \notin KnownIds(attachCall.targets)}

\* C8: after a successful attach_sources_and_targets the edges are the parsed
\* network's edges that enter no resolved source and leave no resolved
\* target, one edge SuperSource -> s for each resolved source s and one edge
\* t -> SuperTarget for each resolved target t; their number is the kept
\* edges plus the resolved sources plus the resolved targets.
C8_AttachedEdgeSet ==
    AttachOk =>
        /\ AttachedEdges =
             KeptEdges
             \cup {<<SuperSource, s>> : s \in KnownIds(attachCall.sources)}
             \cup {<<t, SuperTarget>> : t \in KnownIds(attachCall.targets)}
        /\ Cardinality(AttachedEdges) =
             Cardinality(KeptEdges)
             + Cardinality(KnownIds(attachCall.sources))
             + Cardinality(KnownIds(attachCall.targets))
        /\ \A e \in KeptEdges :
             Attached.inner_network.graph.edges[e] = attachCall.network.graph.edges[e]

\* An attach that pruned an edge into a source and an edge out of a target.
C8_Witness ==
    /\ AttachOk
    /\ \E e \in EdgeSet(attachCall.network.graph) : e[2] \in KnownIds(attachCall.sources)
    /\ \E e \in EdgeSet(attachCall.network.graph) : e[1] \in KnownIds(attachCall.targets)
    /\ KeptEdges # {}

\* The position of a name's first occurrence that satisfies nothing earlier.
FirstUnknown(names) ==
    names[CHOOSE j \in 1..Len(names) :
            /\ names[j] \in Unknown(names)
            /\ \A j2 \in 1..(j - 1) : names[j2] \notin Unknown(names)]

\* The ids of the known names of a list, in the list's order.
RECURSIVE KnownIdsInOrder(_)
KnownIdsInOrder(names) ==
    IF names = <<>> THEN <<>>
    ELSE (IF Head(names) \in Known(names)
          THEN <<GetByLeft(attachCall.network.id_map, Head(names))>> ELSE <<>>)
         \o KnownIdsInOrder(Tail(names))

\* With require = false every unknown name is dropped and the call succeeds
\* with the known names.
DropsUnknownNames ==
    attachCall.made /\ ~attachCall.require =>
        /\ attachCall.res.ok
        /\ Attached.sources = KnownIdsInOrder(attachCall.sources)
        /\ Attached.targets = KnownIdsInOrder(attachCall.targets)

\* C9 as stated: with require = true an unknown source name fails the call
\* with SourceNotExists and an unknown target name fails it with
\* TargetNotExists, each naming the unknown name; with require = false the
\* unknown names are dropped.
C9_AsStated ==
    /\ attachCall.made /\ attachCall.require /\ Unknown(attachCall.sources) # {} =>
         /\ ~attachCall.res.ok
         /\ attachCall.res.err.kind = "SourceNotExists"
         /\ attachCall.res.err.name \in Unknown(attachCall.sources)
    /\ attachCall.made /\ attachCall.require /\ Unknown(attachCall.targets) # {} =>
         /\ ~attachCall.res.ok
         /\ attachCall.res.err.kind = "TargetNotExists"
         /\ attachCall.res.err.name \in Unknown(attachCall.targets)
    /\ DropsUnknownNames

\* C9, amended: with require = true an unknown source name fails the call with
\* SourceNotExists naming the first unknown source; when every source name is
\* known, an unknown target name fails it with TargetNotExists naming the
\* first unknown target; with require = false the unknown names are dropped.
C9_SourcesCheckedFirst ==
    /\ attachCall.made /\ attachCall.require /\ Unknown(attachCall.sources) # {} =>
         /\ ~attachCall.res.ok
         /\ attachCall.res.err.kind = "SourceNotExists"
         /\ attachCall.res.err.name = FirstUnknown(attachCall.sources)
    /\ attachCall.made /\ attachCall.require /\ Unknown(attachCall.sources) = {}
         /\ Unknown(attachCall.targets) # {} =>
         /\ ~attachCall.res.ok
         /\ attachCall.res.err.kind = "TargetNotExists"
         /\ attachCall.res.err.name = FirstUnknown(attachCall.targets)
    /\ DropsUnknownNames

\* A call with require = true and known sources that failed on a target.
C9_Witness ==
    /\ attachCall.made
    /\ attachCall.require
    /\ attachCall.sources # <<>>
    /\ Unknown(attachCall.sources) = {}
    /\ Unknown(attachCall.targets) # {}
    /\ ~attachCall.res.ok

\* ------------------------------------------------------------------ PartialDag::new

\* PartialDag::new has been called: the one attach of a run with
\* require = false, which never fails, so the call's attached graph is there.
DagBuilt == attachCall.made /\ ~attachCall.require
ReturnedIsCyclic == pc = "error" /\ err.kind = "IsCyclic"

\* The edges between integer nodes.
IntegerEdges(E) == {e \in E : IsLeft(e[1]) /\ IsLeft(e[2])}

\* C10: PartialDag::new returns IsCyclic exactly when the graph it attached
\* the sentinels to (require = false) has a directed cycle; when it returns a
\* PartialDag, the subgraph of the integer nodes has no directed cycle.
C10_IsCyclicExactlyOnCycles ==
    DagBuilt =>
        /\ ReturnedIsCyclic <=> HasDirectedCycle(AttachedEdges)
        /\ ~ReturnedIsCyclic =>
             /\ DagAccepted
             /\ ~HasDirectedCycle(IntegerEdges(AttachedEdges))

\* A seed DAG with a cycle was refused.
C10_Witness == DagBuilt /\ ReturnedIsCyclic /\ HasDirectedCycle(AttachedEdges)

\* ------------------------------------------------------------------ functions called on their own

\* The variables of a run of handle_files, which a function called on its
\* own leaves alone.
mainVars == <<pc, cursor, lineNo, network, sourcesIn, targetsIn, attachCall,
              interactome, dagNet, dag, k, i, cache, nodes, idx, paths_parents,
              all_targets, dagBefore, candidates, result, output, err>>

\* ------------------------------------------------------------------ Network::from_lines

\* The lines a file handed to from_lines is made of: data lines (one pair
\* twice, with two weights; a pair and its reverse; a loop), the blank line,
\* a comment and a line with a field missing.
ParseLinePool ==
    { <<"A", "B", 1>>, <<"A", "B", 2>>, <<"B", "A", 1>>, <<"C", "C", 1>>,
      BlankLine, <<"#">>, <<"A", "B">> }

MaxParseLines == 3

ParseFiles == SeqsUpTo(ParseLinePool, MaxParseLines)

\* Network::from_lines::<WeightDataFactory> called on a file.
InitParse ==
    /\ InitRun
    /\ unitCall \in {[fn |-> "from_lines", lines |-> f] : f \in ParseFiles}
    /\ unitState = [at |-> 0, net |-> EmptyNetwork, returned |-> FALSE, ok |-> TRUE,
                    err |-> NoError]

\* from_lines_over_id_map: one turn of the loop over the lines.
ParseNextLine ==
    /\ unitCall.fn = "from_lines"
    /\ ~unitState.returned
    /\ unitState.at < Len(unitCall.lines)
    /\ LET r == ParseLine(unitState.net, unitCall.lines[unitState.at + 1],
                          unitState.at, 1, "mint", {})
       IN  unitState' = IF r.ok
                        THEN [unitState EXCEPT !.at = @ + 1, !.net = r.net]
                        ELSE [unitState EXCEPT !.returned = TRUE, !.ok = FALSE,
                                               !.err = r.err]
    /\ UNCHANGED unitCall
    /\ UNCHANGED mainVars

\* from_lines_over_id_map: the lines are used up, Ok(Self { .. }).
ParseReturn ==
    /\ unitCall.fn = "from_lines"
    /\ ~unitState.returned
    /\ unitState.at = Len(unitCall.lines)
    /\ unitState' = [unitState EXCEPT !.returned = TRUE]
    /\ UNCHANGED unitCall
    /\ UNCHANGED mainVars

NextParse == ParseNextLine \/ ParseReturn

SpecParse == InitParse /\ [][NextParse]_vars

\* from_lines returned a network.
Parsed == unitCall.fn = "from_lines" /\ unitState.returned /\ unitState.ok

\* The data lines of the file: neither blank nor a comment.
DataLines ==
    {j \in 1..Len(unitCall.lines) :
        unitCall.lines[j] # BlankLine /\ ~IsComment(unitCall.lines[j])}

ParsedEdges == Cardinality(DOMAIN unitState.net.graph.edges)
ParsedNodes == Len(unitState.net.graph.nodes)

\* C11 as stated: a file of N data lines, each with the required number of
\* fields, parses to a network of exactly N edges and at most 2N nodes.
C11_AsStated ==
    Parsed =>
        /\ ParsedEdges = Cardinality(DataLines)
        /\ ParsedNodes <= 2 * Cardinality(DataLines)

\* C11, amended: a file of N data lines, each with the required number of
\* fields, parses to a network with one edge for each distinct
\* (source, target) pair of names on its data lines, so at most N edges and N
\* only when no pair is repeated, and one node and one id for each distinct
\* name, so at most 2N nodes; a repeated pair keeps the weight of its last line.
C11_OneEdgePerDistinctPair ==
    Parsed =>
        LET pairs == {<<unitCall.lines[j][1], unitCall.lines[j][2]>> : j \in DataLines}
            names == {unitCall.lines[j][1] : j \in DataLines}
                     \cup {unitCall.lines[j][2] : j \in DataLines}
            net == unitState.net
            last(pr) == CHOOSE j \in DataLines :
                          /\ <<unitCall.lines[j][1], unitCall.lines[j][2]>> = pr
                          /\ \A j2 \in DataLines :
                               <<unitCall.lines[j2][1], unitCall.lines[j2][2]>> = pr
                               => j2 <= j
        IN  /\ ParsedEdges = Cardinality(pairs)
            /\ ParsedEdges <= Cardinality(DataLines)
            /\ ParsedNodes = Cardinality(names)
            /\ Cardinality(net.id_map) = Cardinality(names)
            /\ ParsedNodes <= 2 * Cardinality(DataLines)
            /\ \A pr \in pairs :
                 /\ GetByLeft(net.id_map, pr[1]) # NoId
                 /\ GetByLeft(net.id_map, pr[2]) # NoId
                 /\ LET e == <<Left(GetByLeft(net.id_map, pr[1])),
                               Left(GetByLeft(net.id_map, pr[2]))>>
                    IN  /\ e \in DOMAIN net.graph.edges
                        /\ net.graph.edges[e] = unitCall.lines[last(pr)][3]

\* A file with a pair on two data lines, and another data line, parsed.
C11_Witness ==
    /\ Parsed
    /\ Cardinality(DataLines) = 3
    /\ ParsedEdges = 2

\* ------------------------------------------------------------------ calculate_paths

\* The nodes and the weighted edges (from, to, weight) of the graphs handed
\* to calculate_paths: two routes of equal weight from 0 to 2, an edge of
\* weight 0, an edge back to 0.
CalcNodes == <<Left(0), Left(1), Left(2), Left(3)>>

CalcEdgePool ==
    { <<Left(0), Left(1), 1>>, <<Left(1), Left(2), 1>>, <<Left(0), Left(2), 2>>,
      <<Left(2), Left(3), 1>>, <<Left(1), Left(3), 0>>, <<Left(3), Left(0), 1>> }

MaxCalcEdges == 3
MaxCalcTargets == 2

\* The graph of a set of weighted edges.
CalcGraphOf(E) ==
    [nodes |-> CalcNodes,
     edges |-> [pr \in {<<e[1], e[2]>> : e \in E} |->
                  LET hit == CHOOSE f \in E : f[1] = pr[1] /\ f[2] = pr[2]
                  IN  hit[3]]]

CalcGraphs ==
    {CalcGraphOf(E) : E \in {F \in SUBSET CalcEdgePool : Cardinality(F) <= MaxCalcEdges}}

\* The lists of distinct nodes of at most n nodes.
RECURSIVE DistinctSeqsUpTo(_, _)
DistinctSeqsUpTo(S, n) ==
    IF n = 0 THEN {<<>>}
    ELSE LET shorter == DistinctSeqsUpTo(S, n - 1)
         IN  shorter \cup UNION {{Append(q, x) : x \in S \ Range(q)} : q \in shorter}

CalcSource == Left(0)
CalcTargetLists == DistinctSeqsUpTo(Range(CalcNodes), MaxCalcTargets)

\* The ignore lists: none, one node, or (as produce_dag calls it) the targets.
CalcIgnoreLists(targets) == {<<>>, targets} \cup {<<n>> : n \in Range(CalcNodes)}

\* The shared map as earlier calls left it: entries of another source, and
\* the entry produce_dag writes for a node joined to SuperTarget.
OtherSourcePaths ==
    (<<Left(1), Left(1)>> :> [score |-> 0, parent |-> NoNode])
    @@ (<<Left(1), Left(2)>> :> [score |-> 1, parent |-> Left(1)])
    @@ (<<Left(1), Left(0)>> :> [score |-> 4, parent |-> Left(3)])
    @@ (<<Left(2), SuperTarget>> :> [score |-> Infinity, parent |-> NoNode])

\* The same map holding an entry of the call's own source already.
OwnSourcePaths ==
    (<<CalcSource, Left(2)>> :> [score |-> 0, parent |-> Left(3)]) @@ OtherSourcePaths

NoEntry == <<0, NoNode>>

\* calculate_paths called: the state before the loop.
InitCalc ==
    /\ InitRun
    /\ \E graph \in CalcGraphs, targets \in CalcTargetLists,
          paths \in {OtherSourcePaths, OwnSourcePaths} :
         \E ignore \in CalcIgnoreLists(targets) :
            /\ unitCall = [fn |-> "calculate_paths", paths |-> paths, graph |-> graph,
                           source |-> CalcSource, targets |-> targets, ignore |-> ignore]
            /\ unitState = [loc |-> CalcStart(paths, CalcSource, targets),
                            prev |-> CalcStart(paths, CalcSource, targets),
                            popped |-> NoEntry,
                            done |-> FALSE]

\* calculate_paths: one turn of the while loop, an entry of least score popped.
CalcPop ==
    /\ unitCall.fn = "calculate_paths"
    /\ ~unitState.done
    /\ ~unitState.loc.returned
    /\ \E e \in MinEntries(unitState.loc.visit_next) :
         unitState' = [loc |-> CalcStep(unitState.loc, unitCall.graph, unitCall.source,
                                        unitCall.ignore, e),
                       prev |-> unitState.loc,
                       popped |-> e,
                       done |-> FALSE]
    /\ UNCHANGED unitCall
    /\ UNCHANGED mainVars

\* calculate_paths returns: from inside the loop when the targets are used
\* up, or after the loop when the heap is empty.
CalcReturn ==
    /\ unitCall.fn = "calculate_paths"
    /\ ~unitState.done
    /\ unitState.loc.returned \/ unitState.loc.visit_next = {}
    /\ unitState' = [unitState EXCEPT !.done = TRUE]
    /\ UNCHANGED unitCall
    /\ UNCHANGED mainVars

NextCalc == CalcPop \/ CalcReturn

SpecCalc == InitCalc /\ [][NextCalc]_vars

\* The call of calculate_paths has returned.
CalcDone == unitCall.fn = "calculate_paths" /\ unitState.done
CalcPathsAfter == unitState.loc.paths

MinOf(S) == CHOOSE x \in S : \A y \in S : x <= y

\* The least total weight of a path of at most n edges from the call's source
\* to node t whose intermediate nodes are outside `ignored`; Infinity when
\* there is none.
RECURSIVE Dist(_, _, _)
Dist(ignored, n, t) ==
    IF n = 0 THEN (IF t = unitCall.source THEN 0 ELSE Infinity)
    ELSE MinOf({Dist(ignored, n - 1, t)}
               \cup {Dist(ignored, n - 1, m) + unitCall.graph.edges[<<m, t>>] :
                       m \in {x \in InNeighbors(unitCall.graph, t) :
                                /\ x = unitCall.source \/ x \notin ignored
                                /\ Dist(ignored, n - 1, x) < Infinity}})

\* That weight over paths of any length.
Distance(ignored, t) == Dist(ignored, Len(CalcNodes), t)

\* The entry of target t is right: the least weight, and as predecessor a node
\* that ends a least path to t when the edge to t is added.
RightEntry(t) ==
    LET ig == Range(unitCall.ignore)
        key == <<unitCall.source, t>>
    IN  /\ key \in DOMAIN CalcPathsAfter
        /\ CalcPathsAfter[key].score = Distance(ig, t)
        /\ IF t = unitCall.source THEN CalcPathsAfter[key].parent = NoNode
           ELSE LET p == CalcPathsAfter[key].parent
                IN  /\ p \in InNeighbors(unitCall.graph, t)
                    /\ p = unitCall.source \/ p \notin ig
                    /\ Distance(ig, p) + unitCall.graph.edges[<<p, t>>] = Distance(ig, t)

SourceEntryRight ==
    /\ <<unitCall.source, unitCall.source>> \in DOMAIN CalcPathsAfter
    /\ CalcPathsAfter[<<unitCall.source, unitCall.source>>] = [score |-> 0, parent |-> NoNode]

\* C12 as stated: with non-negative weights, when calculate_paths returns,
\* every target reachable from the source by a path whose intermediate nodes
\* are not in ignore has the least weight of such paths and the node before
\* it on a least path in its entry, and the entry of the source is (0, none).
C12_AsStated ==
    CalcDone =>
        /\ SourceEntryRight
        /\ \A t \in Range(unitCall.targets) :
             Distance(Range(unitCall.ignore), t) < Infinity => RightEntry(t)

\* The map held no entry keyed by the call's source before the call.
NoOwnEntryBefore == \A key \in DOMAIN unitCall.paths : key[1] # unitCall.source

\* C12, amended: with non-negative weights, a source that is not in ignore
\* and a map that holds no entry keyed by the source before the call, when
\* calculate_paths returns every target reachable from the source by a path
\* whose intermediate nodes are not in ignore has the least weight of such
\* paths and the node before it on a least path in its entry; the entry of
\* the source is (0, none) whatever the map and the ignore list.
C12_ShortestPathsToTargets ==
    CalcDone =>
        /\ SourceEntryRight
        /\ unitCall.source \notin Range(unitCall.ignore) /\ NoOwnEntryBefore =>
             \A t \in Range(unitCall.targets) :
                Distance(Range(unitCall.ignore), t) < Infinity => RightEntry(t)

\* A call that returned with a target two edges from the source, reached
\* through a node outside ignore, and a target that ignore cuts off.
C12_Witness ==
    /\ CalcDone
    /\ unitCall.source \notin Range(unitCall.ignore)
    /\ NoOwnEntryBefore
    /\ \E t \in Range(unitCall.targets) :
         /\ Distance(Range(unitCall.ignore), t) < Infinity
         /\ CalcPathsAfter[<<unitCall.source, t>>].parent \notin {unitCall.source, NoNode}
    /\ \E t \in Range(unitCall.targets) :
         /\ Distance(Range(unitCall.ignore), t) = Infinity
         /\ Distance({}, t) < Infinity

\* C13: calculate_paths called with source s leaves every entry whose key has
\* another first component as it was, adds no such entry, and does not modify
\* the graph: at every point of the call the entries of other sources are
\* those the map held before it, and the graph is the one handed in.
C13_OtherSourcesUntouched ==
    unitCall.fn = "calculate_paths" =>
        LET others(m) == {key \in DOMAIN m : key[1] # unitCall.source}
            after == unitState.loc.paths
        IN  /\ others(after) = others(unitCall.paths)
            /\ \A key \in others(unitCall.paths) : after[key] = unitCall.paths[key]
            /\ unitCall.graph \in CalcGraphs
            /\ unitCall.graph.nodes = CalcNodes

\* A call that returned after writing entries of its own source, from a node
\* other than the source, beside the entries of another source.
C13_Witness ==
    /\ CalcDone
    /\ \E key \in DOMAIN CalcPathsAfter :
         /\ key[1] = unitCall.source
         /\ key \notin DOMAIN unitCall.paths
         /\ CalcPathsAfter[key].parent \notin {unitCall.source, NoNode}
    /\ \E key \in DOMAIN CalcPathsAfter : key[1] # unitCall.source

\* The last turn of the loop popped a node that was not visited, and the call
\* did not return on it.
PoppedFresh ==
    /\ unitCall.fn = "calculate_paths"
    /\ unitState.popped # NoEntry
    /\ unitState.popped[2] \notin unitState.prev.visited
    /\ ~unitState.loc.returned

PoppedIgnored == PoppedFresh /\ unitState.popped[2] \in Range(unitCall.ignore)

\* No entry of the call's source that the call wrote has its predecessor in
\* the ignore list.
NoIgnoredPredecessor ==
    \A key \in DOMAIN unitState.loc.paths :
        /\ key[1] = unitCall.source
        /\ key \notin DOMAIN unitCall.paths \/ unitState.loc.paths[key] # unitCall.paths[key]
        => unitState.loc.paths[key].parent \notin Range(unitCall.ignore)

\* C18 as stated: a popped node of the ignore list is marked visited and none
\* of its outgoing edges is relaxed, and no entry of the source has a node of
\* the ignore list as predecessor.
C18_AsStated ==
    /\ PoppedIgnored =>
         /\ unitState.popped[2] \in unitState.loc.visited
         /\ unitState.loc.paths = unitState.prev.paths
    /\ unitCall.fn = "calculate_paths" => NoIgnoredPredecessor

\* C18, amended: a popped node of the ignore list is not marked visited; none
\* of its outgoing edges is relaxed (the map and the queue gain nothing on
\* that turn), so no entry of the source written by the call has a node of
\* the ignore list as predecessor.
C18_IgnoredNodesAreNotRelaxed ==
    /\ PoppedIgnored =>
         /\ unitState.loc.visited = unitState.prev.visited
         /\ unitState.popped[2] \notin unitState.loc.visited
         /\ unitState.loc.paths = unitState.prev.paths
         /\ unitState.loc.visit_next = unitState.prev.visit_next \ {unitState.popped}
    /\ unitCall.fn = "calculate_paths" => NoIgnoredPredecessor

\* A node of the ignore list, other than the source and with outgoing edges,
\* was popped and the loop went on.
C18_Witness ==
    /\ PoppedIgnored
    /\ unitState.popped[2] # unitCall.source
    /\ OutNeighbors(unitCall.graph, unitState.popped[2]) # {}

\* The last turn of the loop took the last target out of the list.
PoppedLastTarget ==
    /\ unitCall.fn = "calculate_paths"
    /\ unitState.popped # NoEntry
    /\ unitState.prev.targets # <<>>
    /\ unitState.loc.targets = <<>>

\* C19: called with a non-empty targets list, calculate_paths returns on the
\* turn that pops the last target still in the list, relaxing no edge on that
\* turn or after it; it returns from inside the loop in no other case, so
\* when a target stays in the list it returns only once the queue is empty.
C19_ReturnsOnLastTarget ==
    unitCall.fn = "calculate_paths" /\ unitCall.targets # <<>> =>
        /\ PoppedLastTarget =>
             /\ unitState.loc.returned
             /\ unitState.loc.paths = unitState.prev.paths
             /\ unitState.loc.visited = unitState.prev.visited
             /\ unitState.loc.visit_next = unitState.prev.visit_next \ {unitState.popped}
        /\ unitState.loc.returned => unitState.loc.targets = <<>>
        /\ unitState.done /\ unitState.loc.targets # <<>> =>
             /\ ~unitState.loc.returned
             /\ unitState.loc.visit_next = {}

\* The call returned on its last target, a node with an outgoing edge to a
\* node not yet visited, with entries still queued.
C19_Witness ==
    /\ CalcDone
    /\ PoppedLastTarget
    /\ unitState.loc.visit_next # {}
    /\ unitState.popped[2] \notin Range(unitCall.ignore)
    /\ \E m \in OutNeighbors(unitCall.graph, unitState.popped[2]) :
         m \notin unitState.loc.visited

\* A call that returned with a target left in the list, after the queue ran out.
C19_WitnessDrained ==
    /\ CalcDone
    /\ unitCall.targets # <<>>
    /\ unitState.loc.targets # <<>>
    /\ Cardinality(unitState.loc.visited) >= 2

\* ------------------------------------------------------------------ EdgeCost::relative_cost_of

\* The main interactome the cost is read from: the network of the unit test
\* with distinct weights and a loop, sources [A] and targets [C] attached.
CostMainNetwork ==
    [graph |-> [nodes |-> <<Left(0), Left(1), Left(2), Left(3)>>,
                edges |-> (<<Left(0), Left(1)>> :> 1) @@ (<<Left(1), Left(2)>> :> 2)
                          @@ (<<Left(1), Left(3)>> :> 1) @@ (<<Left(3), Left(2)>> :> 3)
                          @@ (<<Left(2), Left(2)>> :> 2)],
     id_map |-> {<<"A", 0>>, <<"B", 1>>, <<"C", 2>>, <<"D", 3>>},
     max_id |-> 3]

CostMain ==
    AttachSourcesAndTargets(CostMainNetwork, <<"A">>, <<"C">>, TRUE, DefaultWeight).interactome

\* The edges a DAG is made of: edges of the main interactome and one that is
\* none of its edges.
CostDagEdgePool ==
    { <<Left(0), Left(1)>>, <<Left(1), Left(2)>>, <<Left(1), Left(3)>>,
      <<Left(2), Left(2)>>, <<Left(0), Left(3)>> }

MaxCostDagEdges == 2
MaxCostNodes == 3

CostDagOf(E) ==
    [inner_network |->
        [graph |-> [nodes |-> CostMainNetwork.graph.nodes, edges |-> [e \in E |-> Unit]],
         id_map |-> CostMainNetwork.id_map,
         max_id |-> CostMainNetwork.max_id],
     sources |-> <<>>, targets |-> <<>>]

CostDags ==
    {CostDagOf(E) : E \in {F \in SUBSET CostDagEdgePool : Cardinality(F) <= MaxCostDagEdges}}

CostNodeSeqs == SeqsUpTo(Range(CostMainNetwork.graph.nodes), MaxCostNodes)

InitCost ==
    /\ InitRun
    /\ unitCall \in {[fn |-> "relative_cost_of", main |-> CostMain, dag |-> d, nodes |-> q] :
                       d \in CostDags, q \in CostNodeSeqs}
    /\ unitState = [returned |-> FALSE]

\* The call made: what it returns, or its panic; main and dag are shared
\* references and stay as they are.
CostCall ==
    /\ unitCall.fn = "relative_cost_of"
    /\ ~unitState.returned
    /\ LET r == RelativeCostOutcome(unitCall.main, unitCall.dag, unitCall.nodes)
       IN  unitState' = [returned |-> TRUE, panic |-> r.panic, cost |-> r.cost,
                         main |-> unitCall.main, dag |-> unitCall.dag]
    /\ UNCHANGED unitCall
    /\ UNCHANGED mainVars

NextCost == CostCall

SpecCost == InitCost /\ [][NextCost]_vars

\* The call of relative_cost_of is over.
CostDone == unitCall.fn = "relative_cost_of" /\ unitState.returned

\* The positions of the sequence whose pair is no edge of the DAG.
NewPositions ==
    {j \in 1..(Len(unitCall.nodes) - 1) :
        <<unitCall.nodes[j], unitCall.nodes[j + 1]>>
            \notin DOMAIN unitCall.dag.inner_network.graph.edges}

\* Every pair that is no edge of the DAG is an edge of the main interactome.
CostDefined ==
    \A j \in NewPositions :
        <<unitCall.nodes[j], unitCall.nodes[j + 1]>>
            \in DOMAIN unitCall.main.inner_network.graph.edges

\* The main interactome's weights of those pairs, added up position by position.
NewPositionsWeight ==
    SumWeights(NewPositions,
               [j \in NewPositions |->
                  unitCall.main.inner_network.graph.edges[
                      <<unitCall.nodes[j], unitCall.nodes[j + 1]>>]])

ReturnsTheSum ==
    /\ ~unitState.panic
    /\ unitState.cost = NewPositionsWeight
    /\ NewPositions = {} => unitState.cost = 0
    /\ unitState.main = CostMain
    /\ unitState.dag = unitCall.dag

\* C14: relative_cost_of returns the sum of the main interactome's weights of
\* exactly the consecutive pairs of the sequence that are no edges of the DAG,
\* so 0 for any sequence whose every pair is a DAG edge, and modifies neither
\* main nor dag.
C14_SumOfNewEdges == CostDone /\ CostDefined => ReturnsTheSum

\* The same for the sequences that hold a node: on them the claim holds.
C14_OnSequencesWithANode ==
    CostDone /\ CostDefined /\ unitCall.nodes # <<>> => ReturnsTheSum

\* ------------------------------------------------------------------ get_ancestors, get_descendents

\* The graphs handed to get_ancestors and get_descendents: four nodes and a
\* few of these edges, which hold a cycle, a loop and a chain.
RelatedNodes == <<Left(0), Left(1), Left(2), Left(3)>>

RelatedEdgePool ==
    { <<Left(0), Left(1)>>, <<Left(1), Left(2)>>, <<Left(2), Left(0)>>,
      <<Left(2), Left(3)>>, <<Left(3), Left(1)>>, <<Left(1), Left(1)>> }

MaxRelatedEdges == 3

RelatedGraphs ==
    {[nodes |-> RelatedNodes, edges |-> [e \in E |-> Unit]] :
        E \in {F \in SUBSET RelatedEdgePool : Cardinality(F) <= MaxRelatedEdges}}

InitRelated ==
    /\ InitRun
    /\ unitCall \in {[fn |-> "get_related", graph |-> g, node |-> n] :
                       g \in RelatedGraphs, n \in Range(RelatedNodes)}
    /\ unitState = [returned |-> FALSE]

\* util::get_ancestors called on the graph and the node.
CallGetAncestors ==
    /\ unitCall.fn = "get_related"
    /\ ~unitState.returned
    /\ unitState' = [returned |-> TRUE, of |-> "get_ancestors",
                     relators |-> GetAncestors(unitCall.graph, unitCall.node)]
    /\ UNCHANGED unitCall
    /\ UNCHANGED mainVars

\* util::get_descendents called on the graph and the node.
CallGetDescendents ==
    /\ unitCall.fn = "get_related"
    /\ ~unitState.returned
    /\ unitState' = [returned |-> TRUE, of |-> "get_descendents",
                     relators |-> GetDescendents(unitCall.graph, unitCall.node)]
    /\ UNCHANGED unitCall
    /\ UNCHANGED mainVars

NextRelated == CallGetAncestors \/ CallGetDescendents

SpecRelated == InitRelated /\ [][NextRelated]_vars

RelatedReturned(name) ==
    unitCall.fn = "get_related" /\ unitState.returned /\ unitState.of = name

\* The nodes of the returned vector, and whether each comes once.
Relators == Range(unitState.relators)
EachOnce == Len(unitState.relators) = Cardinality(Relators)

RelatedEdges == DOMAIN unitCall.graph.edges

\* C15: get_descendents(graph, n) returns exactly the nodes reachable from n
\* along the edges' forward direction, each once and n itself left out, on
\* every graph, cyclic or not.
C15_DescendentsAreForwardReachable ==
    RelatedReturned("get_descendents") =>
        /\ Relators = ReachFrom(RelatedEdges, unitCall.node) \ {unitCall.node}
        /\ EachOnce

\* C16: get_ancestors(graph, n) returns exactly the nodes from which n is
\* reachable by directed edges, each once, and never n itself.
C16_AncestorsReachTheNode ==
    RelatedReturned("get_ancestors") =>
        /\ Relators = {m \in Range(RelatedNodes) \ {unitCall.node} :
                         unitCall.node \in ReachFrom(RelatedEdges, m)}
        /\ EachOnce
        /\ unitCall.node \notin Relators

\* get_ancestors returned the two ancestors of a node that lies on a cycle,
\* and so reaches itself.
C16_Witness ==
    /\ RelatedReturned("get_ancestors")
    /\ Cardinality(Relators) = 2
    /\ unitCall.node \in ReachFrom(RelatedEdges, unitCall.node)

\* ------------------------------------------------------------------ candidate paths

\* The nodes of the DAG the last grow call was made on, and its edges.
DagNodesBefore == Range(dagBefore.inner_network.graph.nodes)
DagEdgesBefore == EdgeSet(dagBefore.inner_network.graph)

\* A path starts at a DAG node, ends at a DAG node that is neither that node
\* nor one of its ancestors, and has no DAG node in between.
LeavesAndReentersOnce(c) ==
    /\ Len(c) >= 2
    /\ c[1] \in DagNodesBefore
    /\ c[Len(c)] \in DagNodesBefore
    /\ c[Len(c)] # c[1]
    /\ c[1] \notin ReachFrom(DagEdgesBefore, c[Len(c)])
    /\ \A j \in 2..(Len(c) - 1) : c[j] \notin DagNodesBefore

\* C17: every candidate path produce_dag builds, and so every winner, starts
\* at a node n of the current DAG, ends at a node of the current DAG that is
\* neither n nor an ancestor of n, and has no intermediate node in the DAG.
C17_CandidatesLeaveAndReenterOnce ==
    GrowReturned =>
        /\ \A c \in candidates : LeavesAndReentersOnce(c)
        /\ result.some => LeavesAndReentersOnce(result.path)

\* A candidate with a node outside the DAG in between was built while the
\* interactome offered an edge from a DAG node back to one of its ancestors.
C17_Witness ==
    /\ GrowReturned
    /\ \E c \in candidates : Len(c) >= 3
    /\ \E e \in MainEdges \ DagEdgesBefore :
         /\ e[1] \in DagNodesBefore
         /\ e[2] # e[1]
         /\ e[2] \in DagNodesBefore
         /\ e[1] \in ReachFrom(DagEdgesBefore, e[2])

\* produce_dag has rebuilt its candidate paths and is about to choose.
AboutToChoose ==
    /\ pc = "visit"
    /\ idx > Len(nodes)
    /\ CandidatePaths(paths_parents, all_targets) # {}
    /\ \A c \in CandidatePaths(paths_parents, all_targets) :
         ~EdgeCostPanics(interactome, dag, c)

\* C20: produce_dag breaks cost ties deterministically: with the interactome,
\* the DAG, the parent map and the targets of every source the same, min_by
\* can return one path only, also when several candidates share the least
\* cost.
C20_OneWinnerPerInput ==
    AboutToChoose =>
        Cardinality(BestPaths(paths_parents, all_targets, interactome, dag)) = 1

\* ------------------------------------------------------------------ new edges

\* produce_dag has rebuilt its candidate paths and has not yet costed them.
PathsRebuilt == pc = "visit" /\ idx > Len(nodes)

\* C21: with the cache cloned from the interactome for the call, every
\* consecutive pair of the path grow returns is an edge of the main
\* interactome that was no edge of the DAG before the call, the DAG has
\* len(winner) - 1 edges more after the call than before, and no candidate
\* path holds a pair on which EdgeCost panics.
C21_WinnerAddsOnlyNewInteractomeEdges ==
    /\ GrowReturned /\ result.some =>
         /\ Pairs(result.path) \subseteq MainEdges \ DagEdgesBefore
         /\ Cardinality(DagEdges) = Cardinality(DagEdgesBefore) + Len(result.path) - 1
    /\ PathsRebuilt =>
         \A c \in CandidatePaths(paths_parents, all_targets) :
             ~EdgeCostPanics(interactome, dag, c)

\* A winner of three nodes or more was grafted from a node that has, in the
\* interactome, an edge the DAG already held.
C21_Witness ==
    /\ GrowReturned
    /\ result.some
    /\ Len(result.path) >= 3
    /\ \E e \in MainEdges \cap DagEdgesBefore : e[1] = result.path[1]

\* ------------------------------------------------------------------ the end of growing

\* handle_files has ended: it returned, with or without an error, or panicked.
\* No step can be taken in these states, and one can in every other.
Halted == pc \in {"done", "error", "panic"}

\* The seed DAG, as PartialDag::new built it, and the interactome's edges it
\* does not hold.
SeedDagEdges == EdgeSet(attachCall.res.interactome.inner_network.graph)
MissingFromSeed == MainEdges \ SeedDagEdges

\* The grafts made so far: one line is printed for each.
Grafts == Len(output)

GraftsWithinMissing == DagAccepted => Grafts <= Cardinality(MissingFromSeed)

\* The loop of grow calls was left without a panic, on a none result when k
\* allowed more calls than the seed DAG misses interactome edges.
GrowingEnded ==
    /\ pc = "done"
    /\ k > Cardinality(MissingFromSeed) => ~result.some

\* C22: calling grow again and again, each time with a fresh cache, comes to
\* a call that returns none: the grafts made are at most as many as the
\* interactome's edges that are not in the seed DAG, whatever k is, and the
\* calls end only by the loop being left, on a none result when k allowed one
\* call more than that number.
C22_GrowingEndsOnNone ==
    /\ GraftsWithinMissing
    /\ Halted /\ DagAccepted => GrowingEnded

\* The same with the panic of produce_dag as a way for the calls to end.
C22_EndsOnNoneOrPanics ==
    /\ GraftsWithinMissing
    /\ Halted /\ DagAccepted /\ pc # "panic" => GrowingEnded

\* The loop was left on a none result after a graft, with k allowing more
\* calls than the seed DAG misses interactome edges.
C22_EndedOnNoneAfterAGraft ==
    /\ DagAccepted
    /\ pc = "done"
    /\ Grafts >= 1
    /\ k > Cardinality(MissingFromSeed)
    /\ ~result.some

====
